---- MODULE Spec2Model ----
(***************************************************************************)
(* Smart Desktop Cleaner: FileScanner, FileClassifier, FileMover and main. *)
(*                                                                         *)
(* A file name is a record [base, sfx, ext]: the text of the stem, the     *)
(* sequence of "_<timestamp>" suffixes appended to the stem, and the text  *)
(* of the final extension as written on disk (with its dot, any case).     *)
(* A path is a sequence of names; std::string concatenation                *)
(* dir + "/" + name is Append(dir, name).  The filesystem is the set of    *)
(* directories (fsDirs) and the regular files with their content           *)
(* (fsFiles : path -> content id).                                         *)
(***************************************************************************)
EXTENDS Integers, Sequences, FiniteSets, TLC

VARIABLES
    clock,              \* std::chrono::system_clock::now(), in seconds
    fsFiles,            \* regular files: path -> content id
    fsDirs,             \* directories: set of paths
    permDenied,         \* the target tree refuses writes (EACCES)
    fattr,              \* content id -> [sizeBytes, lastModified, readable]
    files_, largeFiles_, oldFiles_,         \* FileScanner results
    largeFileSizeMB_, oldFileAgeDays_,      \* FileScanner thresholds
    scanPending,        \* directory entries the iterator has not yet returned
    scanRet,            \* "none" | "running" | "true" | "false": scanDirectory's result
    scanError,          \* the message scanDirectory gave to logger_.error, or "none"
    categorizedFiles_,  \* FileClassifier: std::map category -> vector<FileInfo>
    dryRun_, successCount_, failCount_, warningCount_,   \* FileMover fields
    mpc,                \* position inside organizeFiles
    ci, fi,             \* std::map iterator position, vector position
    mret,               \* "none" | "true" | "false": organizeFiles' result
    calls,              \* organizeFiles calls begun on this FileMover
    preview,            \* result and counters a dry-run call reported
    pc,                 \* position inside main
    exitCode,           \* main's return value, -1 while running
    cwd,                \* fs::current_path()
    target,             \* main's targetDirectory, organizeFiles' baseDirectory
    dryRun,             \* main's dryRun flag (--dry-run)
    startFiles, startDirs,  \* the filesystem when the program started
    runs,               \* what the earlier runs of the program on this machine did
    external,           \* another process has changed the target directory
    fs0Files, fs0Dirs,  \* the filesystem when organizeFiles was entered
    moved               \* paths fs::rename has been called on, in call order

fsVars    == <<fsFiles, fsDirs, permDenied, fattr>>
scanVars  == <<files_, largeFiles_, oldFiles_, largeFileSizeMB_,
               oldFileAgeDays_, scanPending, scanRet, scanError>>
moverVars == <<dryRun_, successCount_, failCount_, warningCount_,
               mpc, ci, fi, mret, calls, preview, fs0Files, fs0Dirs, moved>>
mainVars  == <<pc, exitCode, cwd, target, dryRun, startFiles, startDirs, runs, external>>
vars      == <<clock, fsVars, scanVars, categorizedFiles_, moverVars, mainVars>>

\* no dry-run call has reported yet
NoPreview == [ret |-> "none", success |-> 0, fail |-> 0, warning |-> 0]

----------------------------------------------------------------------------
(* Bounds *)

MaxFiles == 3       \* files handed to classifyFiles / organizeFiles at most
MaxTicks == 1       \* seconds the clock may advance during one run
MaxCalls == 2       \* organizeFiles calls made on one FileMover at most
MaxRuns == 2        \* runs of the program, one after the other, at most

----------------------------------------------------------------------------
(* Config.h *)

DEFAULT_LARGE_FILE_SIZE_MB == 100
DEFAULT_OLD_FILE_AGE_DAYS == 90
DEFAULT_DRY_RUN == FALSE

CATEGORY_DOCUMENTS == "Documents"
CATEGORY_IMAGES == "Images"
CATEGORY_VIDEOS == "Videos"
CATEGORY_ARCHIVES == "Archives"
CATEGORY_CODE == "Code"
CATEGORY_OTHERS == "Others"

EXTENSIONS_DOCUMENTS ==
    {".pdf", ".doc", ".docx", ".txt", ".rtf", ".odt",
     ".xlsx", ".xls", ".pptx", ".ppt", ".csv"}

EXTENSIONS_IMAGES ==
    {".jpg", ".jpeg", ".png", ".gif", ".bmp", ".svg",
     ".webp", ".ico", ".tiff", ".tif", ".raw"}

EXTENSIONS_VIDEOS ==
    {".mp4", ".mkv", ".avi", ".mov", ".wmv", ".flv",
     ".webm", ".mpeg", ".mpg", ".3gp", ".m4v"}

EXTENSIONS_ARCHIVES ==
    {".zip", ".rar", ".7z", ".tar", ".gz", ".bz2",
     ".xz", ".tgz", ".tar.gz", ".iso"}

EXTENSIONS_CODE ==
    {".cpp", ".c", ".h", ".hpp", ".py", ".java",
     ".js", ".ts", ".jsx", ".tsx", ".html", ".css",
     ".scss", ".php", ".rb", ".go", ".rs", ".swift",
     ".sh", ".bat", ".json", ".xml", ".yaml", ".yml"}

getAllCategories ==
    <<CATEGORY_DOCUMENTS, CATEGORY_IMAGES, CATEGORY_VIDEOS,
      CATEGORY_ARCHIVES, CATEGORY_CODE, CATEGORY_OTHERS>>

\* extensionMap[ext] = category for every ext of the set (operator[] assigns,
\* so a later set overrides an earlier one)
AddExtensions(extensionMap, exts, category) ==
    [e \in DOMAIN extensionMap \cup exts |->
        IF e \in exts THEN category ELSE extensionMap[e]]

EmptyMap == [k \in {} |-> <<>>]

buildExtensionMap ==
    AddExtensions(
      AddExtensions(
        AddExtensions(
          AddExtensions(
            AddExtensions(EmptyMap, EXTENSIONS_DOCUMENTS, CATEGORY_DOCUMENTS),
            EXTENSIONS_IMAGES, CATEGORY_IMAGES),
          EXTENSIONS_VIDEOS, CATEGORY_VIDEOS),
        EXTENSIONS_ARCHIVES, CATEGORY_ARCHIVES),
      EXTENSIONS_CODE, CATEGORY_CODE)

----------------------------------------------------------------------------
(* Names, paths and the std::filesystem calls the program makes *)

Name(b, e) == [base |-> b, sfx |-> <<>>, ext |-> e]

BaseDir == <<Name("target", "")>>       \* the directory being organized
ExtDir  == <<Name("elsewhere", "")>>    \* some other directory

Range(s) == {s[i] : i \in 1..Len(s)}
Last(s) == s[Len(s)]
Parent(p) == SubSeq(p, 1, Len(p) - 1)

\* std::put_time(&tm, "%Y%m%d_%H%M%S"): the date part and the time-of-day part
FormatTimestamp(t) == <<t \div 86400, t % 86400>>

\* ::tolower over the characters of an extension; the strings below are the
\* ones with an upper-case letter that the model's directories contain
ToLower(s) ==
    CASE s = ".PDF" -> ".pdf"
      [] s = ".MP4" -> ".mp4"
      [] s = ".Txt" -> ".txt"
      [] s = ".JPG" -> ".jpg"
      [] OTHER -> s

fs_exists(p) == p \in DOMAIN fsFiles \/ p \in fsDirs
fs_is_directory(p) == p \in fsDirs

\* fs::rename(from, to) throws filesystem_error when the source is gone, when
\* the destination's parent is not a directory, or when permission is denied
RenameThrows(from, to) ==
    \/ from \notin DOMAIN fsFiles
    \/ Parent(to) \notin fsDirs
    \/ permDenied

\* mutant: the file is copied to `to' and stays at `from' as well
RenameResult_KeepsSource(from, to) ==
    [p \in DOMAIN fsFiles \cup {to} |->
        IF p = to THEN fsFiles[from] ELSE fsFiles[p]]

\* fs::rename(from, to) on success: `to' is replaced if it exists
RenameResult(from, to) ==
    [p \in (DOMAIN fsFiles \ {from}) \cup {to} |->
        IF p = to THEN fsFiles[from] ELSE fsFiles[p]]

----------------------------------------------------------------------------
(* FileScanner::extractFileInfo, the FileInfo of the regular file at a path *)

FileInfoOf(path, attr) ==
    [path |-> path,
     name |-> Last(path),
     extension |-> ToLower(Last(path).ext),
     sizeBytes |-> attr.sizeBytes,
     lastModified |-> attr.lastModified]

----------------------------------------------------------------------------
(* FileClassifier *)

extensionMap_ == buildExtensionMap

\* mutant: the lookup uses the extension as written on disk
classifyFile_RawExtension(fileInfo) ==
    IF fileInfo.name.ext \in DOMAIN extensionMap_
    THEN extensionMap_[fileInfo.name.ext]
    ELSE CATEGORY_OTHERS

classifyFile(fileInfo) ==
    IF fileInfo.extension \in DOMAIN extensionMap_
    THEN extensionMap_[fileInfo.extension]
    ELSE CATEGORY_OTHERS

\* mutant: the vector is assigned, not appended to
MapAt_AlwaysEmpty(m, k) == <<>>

\* std::map::operator[]: the key is inserted with an empty vector if absent
MapAt(m, k) == IF k \in DOMAIN m THEN m[k] ELSE <<>>
MapSet(m, k, v) == [x \in DOMAIN m \cup {k} |-> IF x = k THEN v ELSE m[x]]

\* mutant: the categories are not initialized
InitCategories_Skipped(m, cats) == m

RECURSIVE InitCategories(_, _)
InitCategories(m, cats) ==
    IF cats = <<>> THEN m
    ELSE InitCategories(MapSet(m, Head(cats), <<>>), Tail(cats))

\* mutant: a file is put in front of the files its category already holds
RECURSIVE PlaceFiles_Prepends(_, _)
PlaceFiles_Prepends(m, files) ==
    IF files = <<>> THEN m
    ELSE LET category == classifyFile(Head(files))
         IN PlaceFiles_Prepends(MapSet(m, category, <<Head(files)>> \o MapAt(m, category)),
                                Tail(files))

RECURSIVE PlaceFiles(_, _)
PlaceFiles(m, files) ==
    IF files = <<>> THEN m
    ELSE LET category == classifyFile(Head(files))
         IN PlaceFiles(MapSet(m, category, Append(MapAt(m, category), Head(files))),
                       Tail(files))

\* std::map::clear()
MapClear(m) == [k \in {} |-> <<>>]

\* classifyFiles run on a classifier whose categorizedFiles_ is m
ClassifyInto(m, files) ==
    PlaceFiles(InitCategories(MapClear(m), getAllCategories), files)

classifyFiles(files) == ClassifyInto(categorizedFiles_, files)

\* the regular files in main's target directory that the scan has not recorded
Unscanned ==
    {p \in DOMAIN fsFiles :
        /\ SubSeq(p, 1, Len(p) - 1) = target
        /\ fattr[fsFiles[p]].kind = "regular"
        /\ fattr[fsFiles[p]].readable
        /\ \A i \in 1..Len(files_) : files_[i].path # p}

\* mutant: main classifies what the directory holds now, not what was scanned
Classify_Rescans ==
    /\ pc = "classify"
    /\ categorizedFiles_' =
          classifyFiles(IF Unscanned = {} THEN files_
                        ELSE LET p == CHOOSE q \in Unscanned : TRUE
                             IN  Append(files_, FileInfoOf(p, fattr[fsFiles[p]])))
    /\ pc' = "classified"
    /\ UNCHANGED <<clock, fsVars, scanVars, moverVars, exitCode, cwd,
                   target, dryRun, startFiles, startDirs, runs, external>>

\* FileClassifier::classifyFiles called on the scanner's files (main, line 152)
Classify ==
    /\ pc = "classify"
    /\ categorizedFiles_' = classifyFiles(files_)
    /\ pc' = "classified"
    /\ UNCHANGED <<clock, fsVars, scanVars, moverVars, exitCode, cwd,
                   target, dryRun, startFiles, startDirs, runs, external>>

getFilesInCategory(category) ==
    IF category \in DOMAIN categorizedFiles_ THEN categorizedFiles_[category] ELSE <<>>

----------------------------------------------------------------------------
(* FileMover *)

\* iteration order of std::map<std::string, ...>: keys in ascending
\* std::less<std::string> order
MapOrder == <<"Archives", "Code", "Documents", "Images", "Others", "Videos">>
InMap(k) == k \in DOMAIN categorizedFiles_
MapKeys == SelectSeq(MapOrder, InMap)

CategoryPath(baseDirectory, category) == Append(baseDirectory, Name(category, ""))

\* mutant: the filesystem_error of create_directory is swallowed
createCategoryDirectory_SwallowsError(categoryPath) ==
    IF dryRun_
    THEN [dirs |-> fsDirs, ok |-> TRUE]
    ELSE IF ~fs_exists(categoryPath) /\ ~permDenied
         THEN [dirs |-> fsDirs \cup {categoryPath}, ok |-> TRUE]
         ELSE [dirs |-> fsDirs, ok |-> TRUE]

\* one iteration of the loop of createCategoryDirectories, for a non-empty
\* category: [dirs |-> the directories afterwards, ok |-> no exception]
createCategoryDirectory(categoryPath) ==
    IF dryRun_
    THEN [dirs |-> fsDirs, ok |-> TRUE]
    ELSE IF ~fs_exists(categoryPath)
         THEN IF permDenied
              THEN [dirs |-> fsDirs, ok |-> FALSE]
              ELSE [dirs |-> fsDirs \cup {categoryPath}, ok |-> TRUE]
         ELSE [dirs |-> fsDirs, ok |-> TRUE]

\* mutant: the timestamp is left out of the new name
handleFileCollision_NoSuffix(targetDirectory, fileName) ==
    Append(targetDirectory, fileName)

handleFileCollision(targetDirectory, fileName) ==
    Append(targetDirectory,
           [fileName EXCEPT !.sfx = Append(@, FormatTimestamp(clock))])

\* mutant: the dryRun_ test of moveFile is missing
moveFile_IgnoresDryRun(fileInfo, targetDirectory) ==
    LET plainPath == Append(targetDirectory, fileInfo.name)
        collision == fs_exists(plainPath)
        targetPath == IF collision
                      THEN handleFileCollision(targetDirectory, fileInfo.name)
                      ELSE plainPath
        warning == IF collision THEN warningCount_ + 1 ELSE warningCount_
    IN  IF RenameThrows(fileInfo.path, targetPath)
        THEN [files |-> fsFiles, success |-> successCount_,
              fail |-> failCount_ + 1, warning |-> warning,
              renames |-> Append(moved, [from |-> fileInfo.path, to |-> targetPath, ok |-> FALSE])]
        ELSE [files |-> RenameResult(fileInfo.path, targetPath),
              success |-> successCount_ + 1,
              fail |-> failCount_, warning |-> warning,
              renames |-> Append(moved, [from |-> fileInfo.path, to |-> targetPath, ok |-> TRUE])]

\* mutant: the catch blocks of moveFile do not count the failure
moveFile_FailureNotCounted(fileInfo, targetDirectory) ==
    LET plainPath == Append(targetDirectory, fileInfo.name)
        collision == fs_exists(plainPath)
        targetPath == IF collision
                      THEN handleFileCollision(targetDirectory, fileInfo.name)
                      ELSE plainPath
        warning == IF collision THEN warningCount_ + 1 ELSE warningCount_
    IN  IF dryRun_
        THEN [files |-> fsFiles, success |-> successCount_ + 1,
              fail |-> failCount_, warning |-> warning, renames |-> moved]
        ELSE IF RenameThrows(fileInfo.path, targetPath)
        THEN [files |-> fsFiles, success |-> successCount_,
              fail |-> failCount_, warning |-> warning,
              renames |-> Append(moved, [from |-> fileInfo.path, to |-> targetPath, ok |-> FALSE])]
        ELSE [files |-> RenameResult(fileInfo.path, targetPath),
              success |-> successCount_ + 1,
              fail |-> failCount_, warning |-> warning,
              renames |-> Append(moved, [from |-> fileInfo.path, to |-> targetPath, ok |-> TRUE])]

\* mutant: a move under a collision name counts as a warning only
moveFile_RenamedNotCounted(fileInfo, targetDirectory) ==
    LET plainPath == Append(targetDirectory, fileInfo.name)
        collision == fs_exists(plainPath)
        targetPath == IF collision
                      THEN handleFileCollision(targetDirectory, fileInfo.name)
                      ELSE plainPath
        warning == IF collision THEN warningCount_ + 1 ELSE warningCount_
    IN  IF dryRun_
        THEN [files |-> fsFiles, success |-> successCount_ + 1,
              fail |-> failCount_, warning |-> warning, renames |-> moved]
        ELSE IF RenameThrows(fileInfo.path, targetPath)
        THEN [files |-> fsFiles, success |-> successCount_,
              fail |-> failCount_ + 1, warning |-> warning,
              renames |-> Append(moved, [from |-> fileInfo.path, to |-> targetPath, ok |-> FALSE])]
        ELSE [files |-> RenameResult(fileInfo.path, targetPath),
              success |-> IF collision THEN successCount_ ELSE successCount_ + 1,
              fail |-> failCount_, warning |-> warning,
              renames |-> Append(moved, [from |-> fileInfo.path, to |-> targetPath, ok |-> TRUE])]

\* mutant: a file whose target name was taken counts as a success and as a
\* failure
moveFile_CollisionCountedTwice(fileInfo, targetDirectory) ==
    LET plainPath == Append(targetDirectory, fileInfo.name)
        collision == fs_exists(plainPath)
        targetPath == IF collision
                      THEN handleFileCollision(targetDirectory, fileInfo.name)
                      ELSE plainPath
        warning == IF collision THEN warningCount_ + 1 ELSE warningCount_
        fail == IF collision THEN failCount_ + 1 ELSE failCount_
    IN  IF dryRun_
        THEN [files |-> fsFiles, success |-> successCount_ + 1,
              fail |-> fail, warning |-> warning, renames |-> moved]
        ELSE IF RenameThrows(fileInfo.path, targetPath)
        THEN [files |-> fsFiles, success |-> successCount_,
              fail |-> failCount_ + 1, warning |-> warning,
              renames |-> Append(moved, [from |-> fileInfo.path, to |-> targetPath, ok |-> FALSE])]
        ELSE [files |-> RenameResult(fileInfo.path, targetPath),
              success |-> successCount_ + 1,
              fail |-> fail, warning |-> warning,
              renames |-> Append(moved, [from |-> fileInfo.path, to |-> targetPath, ok |-> TRUE])]

\* mutant: a rename that fails has already removed the source
moveFile_FailureRemovesSource(fileInfo, targetDirectory) ==
    LET plainPath == Append(targetDirectory, fileInfo.name)
        collision == fs_exists(plainPath)
        targetPath == IF collision
                      THEN handleFileCollision(targetDirectory, fileInfo.name)
                      ELSE plainPath
        warning == IF collision THEN warningCount_ + 1 ELSE warningCount_
    IN  IF dryRun_
        THEN [files |-> fsFiles, success |-> successCount_ + 1,
              fail |-> failCount_, warning |-> warning, renames |-> moved]
        ELSE IF RenameThrows(fileInfo.path, targetPath)
        THEN [files |-> [q \in DOMAIN fsFiles \ {fileInfo.path} |-> fsFiles[q]],
              success |-> successCount_,
              fail |-> failCount_ + 1, warning |-> warning,
              renames |-> Append(moved, [from |-> fileInfo.path, to |-> targetPath, ok |-> FALSE])]
        ELSE [files |-> RenameResult(fileInfo.path, targetPath),
              success |-> successCount_ + 1,
              fail |-> failCount_, warning |-> warning,
              renames |-> Append(moved, [from |-> fileInfo.path, to |-> targetPath, ok |-> TRUE])]

\* moveFile: the filesystem and the counters after the call
moveFile(fileInfo, targetDirectory) ==
    LET plainPath == Append(targetDirectory, fileInfo.name)
        collision == fs_exists(plainPath)
        targetPath == IF collision
                      THEN handleFileCollision(targetDirectory, fileInfo.name)
                      ELSE plainPath
        warning == IF collision THEN warningCount_ + 1 ELSE warningCount_
    IN  IF dryRun_
        THEN [files |-> fsFiles, success |-> successCount_ + 1,
              fail |-> failCount_, warning |-> warning, renames |-> moved]
        ELSE IF RenameThrows(fileInfo.path, targetPath)
        THEN [files |-> fsFiles, success |-> successCount_,
              fail |-> failCount_ + 1, warning |-> warning,
              renames |-> Append(moved, [from |-> fileInfo.path, to |-> targetPath, ok |-> FALSE])]
        ELSE [files |-> RenameResult(fileInfo.path, targetPath),
              success |-> successCount_ + 1,
              fail |-> failCount_, warning |-> warning,
              renames |-> Append(moved, [from |-> fileInfo.path, to |-> targetPath, ok |-> TRUE])]

\* mutant: the counters keep the values the previous call left
OrganizeEnter_NoReset ==
    /\ mpc = "entry"
    /\ fs0Files' = fsFiles
    /\ fs0Dirs' = fsDirs
    /\ moved' = <<>>
    /\ mpc' = "mkdirs"
    /\ ci' = 1
    /\ fi' = 1
    /\ calls' = calls + 1
    /\ UNCHANGED <<clock, fsVars, scanVars, categorizedFiles_, dryRun_,
                   successCount_, failCount_, warningCount_, mret, preview, mainVars>>

\* organizeFiles, lines 34-43: the counters are reset
OrganizeEnter ==
    /\ mpc = "entry"
    /\ successCount_' = 0
    /\ failCount_' = 0
    /\ warningCount_' = 0
    /\ fs0Files' = fsFiles
    /\ fs0Dirs' = fsDirs
    /\ moved' = <<>>
    /\ mpc' = "mkdirs"
    /\ ci' = 1
    /\ fi' = 1
    /\ calls' = calls + 1
    /\ UNCHANGED <<clock, fsVars, scanVars, categorizedFiles_, dryRun_, mret,
                   preview, mainVars>>

\* mutant: the directory of an empty category is created like any other
CreateDirStep_NoSkip ==
    /\ mpc = "mkdirs"
    /\ ci <= Len(MapKeys)
    /\ LET category == MapKeys[ci]
           r == createCategoryDirectory(CategoryPath(target, category))
       IN  IF r.ok
           THEN /\ fsDirs' = r.dirs
                /\ ci' = ci + 1
                /\ UNCHANGED <<mpc, mret>>
           ELSE /\ mpc' = "returned"
                /\ mret' = "false"
                /\ UNCHANGED <<fsDirs, ci>>
    /\ UNCHANGED <<clock, fsFiles, permDenied, fattr, scanVars, categorizedFiles_,
                   dryRun_, successCount_, failCount_, warningCount_, fi,
                   calls, preview, fs0Files, fs0Dirs, moved, mainVars>>

\* mutant: a category directory is created when the move loop reaches the
\* category, not in a phase of its own
CreateDirStep_OnDemand ==
    /\ ci <= Len(MapKeys)
    /\ \/ /\ mpc = "mkdirs"
          /\ ci' = ci + 1
          /\ UNCHANGED <<fsDirs, mpc, mret>>
       \/ /\ mpc = "moving"
          /\ fi = 1
          /\ categorizedFiles_[MapKeys[ci]] # <<>>
          /\ ~dryRun_
          /\ ~fs_exists(CategoryPath(target, MapKeys[ci]))
          /\ ~permDenied
          /\ fsDirs' = fsDirs \cup {CategoryPath(target, MapKeys[ci])}
          /\ UNCHANGED <<ci, mpc, mret>>
    /\ UNCHANGED <<clock, fsFiles, permDenied, fattr, scanVars, categorizedFiles_,
                   dryRun_, successCount_, failCount_, warningCount_, fi,
                   calls, preview, fs0Files, fs0Dirs, moved, mainVars>>

\* createCategoryDirectories, one iteration of its loop
CreateDirStep ==
    /\ mpc = "mkdirs"
    /\ ci <= Len(MapKeys)
    /\ LET category == MapKeys[ci]
           files == categorizedFiles_[category]
           r == createCategoryDirectory(CategoryPath(target, category))
       IN  IF files = <<>>
           THEN /\ ci' = ci + 1
                /\ UNCHANGED <<fsDirs, mpc, mret>>
           ELSE IF r.ok
           THEN /\ fsDirs' = r.dirs
                /\ ci' = ci + 1
                /\ UNCHANGED <<mpc, mret>>
           ELSE \* return false; organizeFiles logs and returns false
                /\ mpc' = "returned"
                /\ mret' = "false"
                /\ UNCHANGED <<fsDirs, ci>>
    /\ UNCHANGED <<clock, fsFiles, permDenied, fattr, scanVars, categorizedFiles_,
                   dryRun_, successCount_, failCount_, warningCount_, fi,
                   calls, preview, fs0Files, fs0Dirs, moved, mainVars>>

\* createCategoryDirectories returns true; the move loop starts
CreateDirsDone ==
    /\ mpc = "mkdirs"
    /\ ci > Len(MapKeys)
    /\ mpc' = "moving"
    /\ ci' = 1
    /\ fi' = 1
    /\ UNCHANGED <<clock, fsVars, scanVars, categorizedFiles_, dryRun_,
                   successCount_, failCount_, warningCount_, mret, calls, preview,
                   fs0Files, fs0Dirs, moved, mainVars>>

\* organizeFiles, line 61: moveFile(file, targetDir) for the next file
MoveStep ==
    /\ mpc = "moving"
    /\ ci <= Len(MapKeys)
    /\ fi <= Len(categorizedFiles_[MapKeys[ci]])
    /\ LET category == MapKeys[ci]
           r == moveFile(categorizedFiles_[category][fi], CategoryPath(target, category))
       IN  /\ fsFiles' = r.files
           /\ successCount_' = r.success
           /\ failCount_' = r.fail
           /\ warningCount_' = r.warning
           /\ moved' = r.renames
    /\ fi' = fi + 1
    /\ UNCHANGED <<clock, fsDirs, permDenied, fattr, scanVars, categorizedFiles_,
                   dryRun_, mpc, ci, mret, calls, preview, fs0Files, fs0Dirs, mainVars>>

\* organizeFiles, lines 53-56 and 63: an empty or exhausted category
NextCategory ==
    /\ mpc = "moving"
    /\ ci <= Len(MapKeys)
    /\ fi > Len(categorizedFiles_[MapKeys[ci]])
    /\ ci' = ci + 1
    /\ fi' = 1
    /\ UNCHANGED <<clock, fsVars, scanVars, categorizedFiles_, dryRun_,
                   successCount_, failCount_, warningCount_, mpc, mret, calls, preview,
                   fs0Files, fs0Dirs, moved, mainVars>>

\* organizeFiles, lines 66-73: summary logged, return true
OrganizeReturn ==
    /\ mpc = "moving"
    /\ ci > Len(MapKeys)
    /\ mpc' = "returned"
    /\ mret' = "true"
    /\ UNCHANGED <<clock, fsVars, scanVars, categorizedFiles_, dryRun_,
                   successCount_, failCount_, warningCount_, ci, fi, calls, preview,
                   fs0Files, fs0Dirs, moved, mainVars>>

\* every FileInfo of a classification m, category by category in key order
RECURSIVE Flatten(_, _)
Flatten(m, keys) ==
    IF keys = <<>> THEN <<>>
    ELSE m[Head(keys)] \o Flatten(m, Tail(keys))

\* the caller calls organizeFiles on the same FileMover once more, with the
\* classification it passed before or with the classification of the first
\* file of it
OrganizeAgain ==
    /\ pc = "api"
    /\ mpc = "returned"
    /\ calls < MaxCalls
    /\ LET previous == Flatten(categorizedFiles_, MapKeys)
       IN  \E n \in {Len(previous), IF previous = <<>> THEN 0 ELSE 1} :
              categorizedFiles_' = ClassifyInto(EmptyMap, SubSeq(previous, 1, n))
    /\ mpc' = "entry"
    /\ mret' = "none"
    /\ UNCHANGED <<clock, fsVars, scanVars, dryRun_, successCount_, failCount_,
                   warningCount_, ci, fi, calls, preview, fs0Files, fs0Dirs, moved, mainVars>>

----------------------------------------------------------------------------
(* The clock *)

\* the wall clock when the run starts: day 1000, 12:00:30
T0 == 1000 * 86400 + 43230

Tick ==
    /\ clock < T0 + MaxTicks
    /\ mpc \in {"mkdirs", "moving"} \/ (pc \notin {"api", "exit"} /\ mpc # "returned")
    /\ clock' = clock + 1
    /\ UNCHANGED <<fsVars, scanVars, categorizedFiles_, moverVars, mainVars>>

----------------------------------------------------------------------------
(* organizeFiles called on a classification of files of two directories *)

NameA  == Name("a", ".pdf")
NameAT == [base |-> "a", sfx |-> <<FormatTimestamp(T0)>>, ext |-> ".pdf"]
NameB  == Name("b", ".MP4")

\* the files a caller may hand to classifyFiles and organizeFiles
SrcPaths ==
    {Append(BaseDir, NameA), Append(ExtDir, NameA),
     Append(BaseDir, NameAT), Append(BaseDir, NameB)}

DocumentsDir == CategoryPath(BaseDir, CATEGORY_DOCUMENTS)
VideosDir == CategoryPath(BaseDir, CATEGORY_VIDEOS)

\* files that may already lie in target/Documents
PreDest == {Append(DocumentsDir, NameA), Append(DocumentsDir, NameAT)}

\* content ids: each path of the initial filesystem holds its own content
ContentId(p) ==
    CASE p = Append(BaseDir, NameA) -> 1
      [] p = Append(ExtDir, NameA) -> 2
      [] p = Append(BaseDir, NameAT) -> 3
      [] p = Append(BaseDir, NameB) -> 4
      [] p = Append(DocumentsDir, NameA) -> 11
      [] p = Append(DocumentsDir, NameAT) -> 12
      [] OTHER -> 20

NoAttr == [sizeBytes |-> 0, lastModified |-> T0, readable |-> TRUE, kind |-> "regular"]

\* the sequences of at most n distinct elements of S
RECURSIVE Arrangements(_, _)
Arrangements(S, n) ==
    IF n = 0 THEN {<<>>}
    ELSE {<<>>} \cup
         UNION {{<<x>> \o s : s \in Arrangements(S \ {x}, n - 1)} : x \in S}

ScannerIdle ==
    /\ files_ = <<>>
    /\ largeFiles_ = <<>>
    /\ oldFiles_ = <<>>
    /\ largeFileSizeMB_ = DEFAULT_LARGE_FILE_SIZE_MB
    /\ oldFileAgeDays_ = DEFAULT_OLD_FILE_AGE_DAYS
    /\ scanPending = {}
    /\ scanRet = "none"
    /\ scanError = "none"

MoverInit ==
    \E input \in Arrangements(SrcPaths, MaxFiles),
       gone \in SUBSET SrcPaths,
       docDir \in BOOLEAN, vidDir \in BOOLEAN, docFile \in BOOLEAN,
       pre \in SUBSET PreDest,
       dr \in BOOLEAN, pd \in BOOLEAN :
        /\ gone \subseteq Range(input)
        /\ Cardinality(gone) <= 1
        /\ pre # {} => docDir
        /\ docFile => ~docDir
        /\ LET present == (Range(input) \ gone) \cup pre
                          \cup (IF docFile THEN {DocumentsDir} ELSE {})
           IN  fsFiles = [p \in present |-> ContentId(p)]
        /\ fsDirs = {BaseDir, ExtDir}
                    \cup (IF docDir THEN {DocumentsDir} ELSE {})
                    \cup (IF vidDir THEN {VideosDir} ELSE {})
        /\ permDenied = pd
        /\ fattr = [i \in {1, 2, 3, 4, 11, 12, 20} |-> NoAttr]
        /\ categorizedFiles_ =
              ClassifyInto(EmptyMap, [i \in 1..Len(input) |-> FileInfoOf(input[i], NoAttr)])
        /\ dryRun_ = dr
    /\ clock = T0
    /\ ScannerIdle
    /\ successCount_ = 0
    /\ failCount_ = 0
    /\ warningCount_ = 0
    /\ mpc = "entry"
    /\ ci = 1
    /\ fi = 1
    /\ mret = "none"
    /\ calls = 0
    /\ preview = NoPreview
    /\ runs = <<>>
    /\ external = FALSE
    /\ pc = "api"
    /\ exitCode = -1
    /\ cwd = ExtDir
    /\ target = BaseDir
    /\ dryRun = dryRun_
    /\ startFiles = fsFiles
    /\ startDirs = fsDirs
    /\ fs0Files = fsFiles
    /\ fs0Dirs = fsDirs
    /\ moved = <<>>

MoverNext ==
    \/ OrganizeEnter
    \/ CreateDirStep
    \/ CreateDirsDone
    \/ MoveStep
    \/ NextCategory
    \/ OrganizeReturn
    \/ OrganizeAgain
    \/ Tick

SpecMover == MoverInit /\ [][MoverNext]_vars

----------------------------------------------------------------------------
(* A dry-run call of organizeFiles followed by the real call *)

\* the dry-run call has returned; the caller constructs FileMover(logger,
\* false) and calls organizeFiles with the same classification
RealAfterPreview ==
    /\ pc = "api"
    /\ mpc = "returned"
    /\ dryRun_
    /\ preview = NoPreview
    /\ preview' = [ret |-> mret, success |-> successCount_,
                   fail |-> failCount_, warning |-> warningCount_]
    /\ dryRun_' = FALSE
    /\ successCount_' = 0
    /\ failCount_' = 0
    /\ warningCount_' = 0
    /\ calls' = 0
    /\ mpc' = "entry"
    /\ mret' = "none"
    /\ UNCHANGED <<clock, fsVars, scanVars, categorizedFiles_, ci, fi,
                   fs0Files, fs0Dirs, moved, mainVars>>

PreviewInit == MoverInit /\ dryRun_

PreviewNext ==
    \/ OrganizeEnter
    \/ CreateDirStep
    \/ CreateDirsDone
    \/ MoveStep
    \/ NextCategory
    \/ OrganizeReturn
    \/ RealAfterPreview
    \/ Tick

SpecPreview == PreviewInit /\ [][PreviewNext]_vars

\* C22: the real call of organizeFiles, made on the classification and the
\* filesystem the dry-run call was made on, returns what the dry-run call
\* returned and reports the success, fail and warning counts it reported.
C22_FaithfulPreview ==
    (preview # NoPreview /\ mpc = "returned") =>
        /\ mret = preview.ret
        /\ successCount_ = preview.success
        /\ failCount_ = preview.fail
        /\ warningCount_ = preview.warning

----------------------------------------------------------------------------
(* Properties of organizeFiles *)

\* every FileInfo of the classification, in the order organizeFiles visits them
ClassifiedFiles == Flatten(categorizedFiles_, MapKeys)
TotalFiles == Len(ClassifiedFiles)

NonEmptyCategories == {c \in DOMAIN categorizedFiles_ : categorizedFiles_[c] # <<>>}

\* the regular files lying inside a directory
FilesIn(files, dir) == {p \in DOMAIN files : Parent(p) = dir}

\* no destination name is taken when organizeFiles is entered, and no two
\* files of one category share a name
NoCollisionAtEntry ==
    \A c \in DOMAIN categorizedFiles_ :
        LET fl == categorizedFiles_[c]
        IN  /\ \A i \in 1..Len(fl) :
                 Append(CategoryPath(BaseDir, c), fl[i].name) \notin DOMAIN fs0Files
            /\ \A i, j \in 1..Len(fl) : fl[i].name = fl[j].name => i = j

\* no category directory of a non-empty category is occupied by a regular file
NoCategoryIsFile ==
    \A c \in NonEmptyCategories : CategoryPath(BaseDir, c) \notin DOMAIN fs0Files

MissingAtEntry == {i \in 1..TotalFiles : ClassifiedFiles[i].path \notin DOMAIN fs0Files}

\* C1: in dry-run mode organizeFiles leaves the directory tree as it found it
\* (no file moved or renamed, no directory created) and, when it returns, it
\* returns success with successCount_ equal to the number of classified files.
C1_DryRunInvariant ==
    (dryRun_ /\ mpc # "entry") =>
        /\ fsFiles = fs0Files
        /\ fsDirs = fs0Dirs
        /\ moved = <<>>
        /\ mpc = "returned" => (mret = "true" /\ successCount_ = TotalFiles)

\* a dry run of two or more files, one of them colliding, one category
\* directory missing, has returned
C1_Witness ==
    /\ dryRun_
    /\ mpc = "returned"
    /\ TotalFiles >= 2
    /\ warningCount_ >= 1
    /\ \E c \in NonEmptyCategories : ~fs_exists(CategoryPath(BaseDir, c))

\* C2: no move ever replaces a file that exists in a category directory:
\* every file present in a category directory before a step is still there
\* with its own content after it.
C2_NoOverwrite ==
    [][\A p \in DOMAIN fsFiles :
          Len(p) = 3 => (p \in DOMAIN fsFiles' /\ fsFiles'[p] = fsFiles[p])]_vars

\* two distinct sources with one name, both present, real mode, a writable
\* tree, and a Documents category that holds no file
C3_Scenario ==
    /\ ~dryRun_
    /\ ~permDenied
    /\ NoCategoryIsFile
    /\ Len(categorizedFiles_[CATEGORY_DOCUMENTS]) = 2
    /\ TotalFiles = 2
    /\ LET f1 == categorizedFiles_[CATEGORY_DOCUMENTS][1]
           f2 == categorizedFiles_[CATEGORY_DOCUMENTS][2]
       IN  /\ f1.name = f2.name
           /\ f1.path # f2.path
           /\ f1.path \in DOMAIN fs0Files
           /\ f2.path \in DOMAIN fs0Files
    /\ FilesIn(fs0Files, DocumentsDir) = {}

\* C3: two distinct sources with one name, both present, moved in real mode
\* into a category that holds no file: afterwards the category holds exactly
\* the first under the original name and the second under
\* stem_<timestamp>.ext, and warningCount_ is 1.
C3_CollisionIdempotence ==
    (mpc = "returned" /\ C3_Scenario) =>
        LET f1 == categorizedFiles_[CATEGORY_DOCUMENTS][1]
            f2 == categorizedFiles_[CATEGORY_DOCUMENTS][2]
            plain == Append(DocumentsDir, f1.name)
        IN  /\ mret = "true"
            /\ warningCount_ = 1
            /\ \E t \in T0..clock :
                 LET stamped == Append(DocumentsDir,
                                   [f2.name EXCEPT !.sfx = Append(@, FormatTimestamp(t))])
                 IN  /\ stamped # plain
                     /\ FilesIn(fsFiles, DocumentsDir) = {plain, stamped}
                     /\ fsFiles[plain] = fs0Files[f1.path]
                     /\ fsFiles[stamped] = fs0Files[f2.path]
            /\ f1.path \notin DOMAIN fsFiles
            /\ f2.path \notin DOMAIN fsFiles

C3_Witness ==
    /\ mpc = "returned"
    /\ C3_Scenario
    /\ successCount_ = 2

\* real mode, a writable tree, no collision, exactly one source missing
C4_Scenario ==
    /\ ~dryRun_
    /\ ~permDenied
    /\ NoCategoryIsFile
    /\ NoCollisionAtEntry
    /\ Cardinality(MissingAtEntry) = 1

\* C4: real mode, N classified files, exactly one source missing when the
\* moves start, no collision: organizeFiles calls rename for every file,
\* returns true, and reports 1 failure and N-1 successes.
C4_PartialFailure ==
    (mpc = "returned" /\ C4_Scenario) =>
        /\ mret = "true"
        /\ failCount_ = 1
        /\ successCount_ = TotalFiles - 1
        /\ Len(moved) = TotalFiles
        /\ \A i \in 1..TotalFiles :
             moved[i].from = ClassifiedFiles[i].path
             /\ moved[i].ok = (i \notin MissingAtEntry)

\* three files, the missing one neither first nor last
C4_Witness ==
    /\ mpc = "returned"
    /\ C4_Scenario
    /\ TotalFiles = 3
    /\ MissingAtEntry = {2}

\* C5: when the creation of a category directory fails in real mode,
\* organizeFiles returns false with no rename attempted, no file moved and the
\* three counters at zero; the move loop is only ever entered with every
\* needed category path present.
C5_DirFailureIsFatal ==
    /\ mret = "false" =>
         /\ mpc = "returned"
         /\ ~dryRun_
         /\ moved = <<>>
         /\ fsFiles = fs0Files
         /\ successCount_ = 0 /\ failCount_ = 0 /\ warningCount_ = 0
    /\ (~dryRun_ /\ (mpc = "moving" \/ mret = "true")) =>
         \A c \in NonEmptyCategories : fs_exists(CategoryPath(BaseDir, c))

C5_Witness ==
    /\ mret = "false"
    /\ TotalFiles >= 2
    /\ \A i \in 1..TotalFiles : ClassifiedFiles[i].path \in DOMAIN fsFiles

\* the files moveFile has been called on so far in the current call
Handled ==
    IF mpc = "returned"
    THEN IF mret = "true" THEN TotalFiles ELSE 0
    ELSE Len(Flatten(categorizedFiles_, SubSeq(MapKeys, 1, ci - 1))) + fi - 1

OkRenames == {i \in 1..Len(moved) : moved[i].ok}
FailedRenames == {i \in 1..Len(moved) : ~moved[i].ok}

\* C11: the three counters are zero when an organizeFiles call has passed its
\* reset, and from there on they count the files of this call only, however
\* many calls the FileMover has served before: successCount_ + failCount_ is
\* the number of files this call has handled, warningCount_ does not exceed
\* it, and in real mode successCount_ and failCount_ are the numbers of
\* renames of this call that succeeded and that failed.
C11_CountersPerCall ==
    /\ mpc = "mkdirs" =>
          (successCount_ = 0 /\ failCount_ = 0 /\ warningCount_ = 0)
    /\ mpc \in {"moving", "returned"} =>
          /\ successCount_ + failCount_ = Handled
          /\ warningCount_ <= Handled
          /\ dryRun_ => failCount_ = 0
          /\ ~dryRun_ =>
                /\ Len(moved) = Handled
                /\ successCount_ = Cardinality(OkRenames)
                /\ failCount_ = Cardinality(FailedRenames)

\* a second call has returned in real mode with every file failing, after a
\* first call that moved files
C11_Witness ==
    /\ calls = 2
    /\ mpc = "returned"
    /\ mret = "true"
    /\ ~dryRun_
    /\ TotalFiles >= 1
    /\ failCount_ = TotalFiles
    /\ fsFiles # startFiles
    /\ fsFiles = fs0Files

\* C23: once createCategoryDirectories has succeeded in real mode, the path
\* of every category that holds a file is a directory; the directories that
\* existed before are still there with the files they held, and
\* createCategoryDirectories fails only when some needed path did not exist.
C23_DirectoriesMaterialized ==
    /\ (~dryRun_ /\ mpc = "moving") =>
          /\ \A c \in NonEmptyCategories : CategoryPath(target, c) \in fsDirs
          /\ fs0Dirs \subseteq fsDirs
          /\ moved = <<>> => fsFiles = fs0Files
    /\ mret = "false" =>
          \E c \in NonEmptyCategories :
              CategoryPath(target, c) \notin fs0Dirs \cup DOMAIN fs0Files

\* C24: from the entry of an organizeFiles call on, the directories that
\* exist are those that existed at the entry plus, at most, the directories
\* of categories holding a file; the directory of a category with no file
\* exists exactly if it existed at the entry, and a dry-run call creates none.
C24_NoEmptyCategoryDirectory ==
    mpc \in {"mkdirs", "moving", "returned"} =>
        /\ fs0Dirs \subseteq fsDirs
        /\ fsDirs \ fs0Dirs \subseteq {CategoryPath(target, c) : c \in NonEmptyCategories}
        /\ \A c \in DOMAIN categorizedFiles_ :
              categorizedFiles_[c] = <<>> =>
                  (CategoryPath(target, c) \in fsDirs <=> CategoryPath(target, c) \in fs0Dirs)
        /\ dryRun_ => fsDirs = fs0Dirs

\* a real call has returned after creating Documents/ only, Videos/ having
\* existed before with no file classified to it
C24_Witness ==
    /\ mpc = "returned"
    /\ mret = "true"
    /\ ~dryRun_
    /\ fsDirs \ fs0Dirs = {DocumentsDir}
    /\ VideosDir \in fs0Dirs
    /\ categorizedFiles_[CATEGORY_VIDEOS] = <<>>
    /\ TotalFiles >= 2

\* C25: organizeFiles works in two phases: while the category directories are
\* being checked and created no file has been moved or counted, and from the
\* moment the move loop has started no step creates or removes a directory.
C25_TwoPhaseOrdering ==
    [][/\ mpc' = "mkdirs" =>
            moved' = <<>> /\ successCount_' + failCount_' = 0 /\ fsFiles' = fs0Files'
       /\ (mpc = "moving" \/ moved # <<>> \/ successCount_ + failCount_ > 0) =>
            fsDirs' = fsDirs]_vars

C25_Witness ==
    /\ mpc = "returned" /\ mret = "true" /\ ~dryRun_
    /\ Cardinality(fsDirs \ fs0Dirs) >= 2
    /\ Cardinality(OkRenames) >= 2

\* C27: every file organizeFiles handles raises exactly one of successCount_
\* and failCount_ by one and warningCount_ by at most one, so that when the
\* call returns true successCount_ + failCount_ is the number of classified
\* files and warningCount_ is no larger.
C27_OneCounterPerFile ==
    [][/\ (mpc = "moving" /\ fi' = fi + 1) =>
            /\ successCount_' >= successCount_
            /\ failCount_' >= failCount_
            /\ successCount_' + failCount_' = successCount_ + failCount_ + 1
            /\ warningCount_' \in {warningCount_, warningCount_ + 1}
       /\ (mpc = "moving" /\ mret' = "true") =>
            /\ successCount_' + failCount_' = TotalFiles
            /\ warningCount_' <= successCount_' + failCount_']_vars

C27_Witness ==
    /\ mpc = "returned" /\ mret = "true"
    /\ TotalFiles = 3
    /\ successCount_ = 2 /\ failCount_ = 1 /\ warningCount_ >= 1

\* C29: in real mode the step that counts a file as a failure changes neither
\* a file nor a directory: a source that existed when the move was attempted
\* is still at its path, with its content, and nothing has appeared at the
\* destination.
C29_FailureLeavesFileUntouched ==
    [][(~dryRun_ /\ failCount_' = failCount_ + 1) =>
            /\ fsFiles' = fsFiles
            /\ fsDirs' = fsDirs
            /\ Len(moved') = Len(moved) + 1
            /\ ~moved'[Len(moved')].ok
            /\ successCount_' = successCount_]_vars

C29_Witness ==
    /\ mpc = "returned" /\ mret = "true" /\ ~dryRun_
    /\ successCount_ >= 1
    /\ \E i \in FailedRenames :
          /\ moved[i].from \in DOMAIN fs0Files
          /\ moved[i].from \in DOMAIN fsFiles
          /\ fsFiles[moved[i].from] = fs0Files[moved[i].from]
          /\ moved[i].to \notin DOMAIN fsFiles

\* the rename a step has just made went to a name other than the file's own
RenamedMove(r) == r.ok /\ Last(r.to) # Last(r.from)

\* C18: the moveFile call that renames a file successfully to a collision
\* name adds exactly one to successCount_, exactly one to warningCount_ and
\* nothing to failCount_.
C18_CollisionCounts ==
    [][(mpc = "moving" /\ Len(moved') = Len(moved) + 1
            /\ RenamedMove(moved'[Len(moved')])) =>
          /\ successCount_' = successCount_ + 1
          /\ warningCount_' = warningCount_ + 1
          /\ failCount_' = failCount_]_vars

\* the second of three moves went to a collision name and succeeded, after a
\* move that failed
C18_Witness ==
    /\ Len(moved) = 3
    /\ ~moved[1].ok
    /\ RenamedMove(moved[2])
    /\ successCount_ = 2
    /\ warningCount_ = 1
    /\ failCount_ = 1

----------------------------------------------------------------------------
(* classifyFiles applied to sequences of scanned files *)

\* names of files of the target directory, as the scanner may report them
ClassifyNames ==
    {Name("a", ".pdf"), Name("b", ".MP4"), Name("c", ".Txt"), Name("e", ".zip"),
     Name("f", ".cpp"), Name("g", ".xyz"), Name("h", ""), Name("i", ".pd")}

ClassifyInputs ==
    {[i \in 1..Len(ns) |-> FileInfoOf(Append(BaseDir, ns[i]), NoAttr)] :
        ns \in Arrangements(ClassifyNames, MaxFiles)}

\* what an earlier classifyFiles call may have left in the classifier
EarlierInputs ==
    {<<>>} \cup {<<FileInfoOf(Append(BaseDir, n), NoAttr)>> : n \in ClassifyNames}

ClassifyInit ==
    /\ \E input \in ClassifyInputs :
        /\ files_ = input
    /\ \E earlier \in EarlierInputs, fresh \in BOOLEAN :
        categorizedFiles_ = IF fresh THEN EmptyMap ELSE ClassifyInto(EmptyMap, earlier)
    /\ clock = T0
    /\ fsFiles = [p \in {f.path : f \in Range(files_)} |-> 1]
    /\ fsDirs = {BaseDir}
    /\ permDenied = FALSE
    /\ fattr = [i \in {1} |-> NoAttr]
    /\ largeFiles_ = <<>>
    /\ oldFiles_ = <<>>
    /\ largeFileSizeMB_ = DEFAULT_LARGE_FILE_SIZE_MB
    /\ oldFileAgeDays_ = DEFAULT_OLD_FILE_AGE_DAYS
    /\ scanPending = {}
    /\ scanRet = "true"
    /\ scanError = "none"
    /\ dryRun_ = DEFAULT_DRY_RUN
    /\ successCount_ = 0
    /\ failCount_ = 0
    /\ warningCount_ = 0
    /\ mpc = "off"
    /\ ci = 1
    /\ fi = 1
    /\ mret = "none"
    /\ calls = 0
    /\ preview = NoPreview
    /\ runs = <<>>
    /\ external = FALSE
    /\ pc = "classify"
    /\ exitCode = -1
    /\ cwd = ExtDir
    /\ target = BaseDir
    /\ dryRun = dryRun_
    /\ startFiles = fsFiles
    /\ startDirs = fsDirs
    /\ fs0Files = fsFiles
    /\ fs0Dirs = fsDirs
    /\ moved = <<>>

ClassifyNext == Classify

SpecClassify == ClassifyInit /\ [][ClassifyNext]_vars

\* the places (category, index) of the result that hold a given record
PlacesOf(f) ==
    {<<c, j>> \in (DOMAIN categorizedFiles_) \X (1..(MaxFiles + 1)) :
        j <= Len(categorizedFiles_[c]) /\ categorizedFiles_[c][j] = f}

RECURSIVE SumLen(_, _)
SumLen(m, keys) ==
    IF keys = {} THEN 0
    ELSE LET k == CHOOSE x \in keys : TRUE
         IN  Len(m[k]) + SumLen(m, keys \ {k})

\* C6: after classifyFiles the sizes of all category sequences sum to the
\* length of the input, and every input record is held at exactly one place
\* of the result.
C6_NoDropNoDuplicate ==
    pc = "classified" =>
        /\ SumLen(categorizedFiles_, DOMAIN categorizedFiles_) = Len(files_)
        /\ \A i \in 1..Len(files_) : Cardinality(PlacesOf(files_[i])) = 1

\* three files, two of them in one category
C6_Witness ==
    /\ pc = "classified"
    /\ Len(files_) = 3
    /\ \E c \in DOMAIN categorizedFiles_ : Len(categorizedFiles_[c]) = 2

KnownExtensions ==
    EXTENSIONS_DOCUMENTS \cup EXTENSIONS_IMAGES \cup EXTENSIONS_VIDEOS
    \cup EXTENSIONS_ARCHIVES \cup EXTENSIONS_CODE

\* C7: a file whose lowercased extension is in one of the five extension sets
\* lies in that set's category; a file with any other extension, the empty
\* one included, lies in Others.
C7_TablePlacement ==
    pc = "classified" =>
        \A c \in DOMAIN categorizedFiles_ :
            \A j \in 1..Len(categorizedFiles_[c]) :
                LET e == categorizedFiles_[c][j].extension
                IN  /\ e = ToLower(categorizedFiles_[c][j].name.ext)
                    /\ e \in EXTENSIONS_DOCUMENTS => c = CATEGORY_DOCUMENTS
                    /\ e \in EXTENSIONS_IMAGES => c = CATEGORY_IMAGES
                    /\ e \in EXTENSIONS_VIDEOS => c = CATEGORY_VIDEOS
                    /\ e \in EXTENSIONS_ARCHIVES => c = CATEGORY_ARCHIVES
                    /\ e \in EXTENSIONS_CODE => c = CATEGORY_CODE
                    /\ e \notin KnownExtensions => c = CATEGORY_OTHERS

\* a file written b.MP4 is in Videos, and the files h and i.pd are in Others
C7_Witness ==
    /\ pc = "classified"
    /\ \E j \in 1..Len(categorizedFiles_[CATEGORY_VIDEOS]) :
          categorizedFiles_[CATEGORY_VIDEOS][j].name.ext = ".MP4"
    /\ {categorizedFiles_[CATEGORY_OTHERS][j].name.ext :
          j \in 1..Len(categorizedFiles_[CATEGORY_OTHERS])} = {"", ".pd"}

\* C8: after classifyFiles the keys of the result are exactly the six
\* categories, and a category no input file classifies to maps to the empty
\* sequence.
C8_AllKeysPresent ==
    pc = "classified" =>
        /\ DOMAIN categorizedFiles_ =
              {"Documents", "Images", "Videos", "Archives", "Code", "Others"}
        /\ \A c \in DOMAIN categorizedFiles_ :
              (\A i \in 1..Len(files_) : classifyFile(files_[i]) # c)
                  => categorizedFiles_[c] = <<>>

\* the empty input, classified by a classifier that held an earlier result
C8_Witness ==
    /\ pc = "classified"
    /\ files_ = <<>>
    /\ Cardinality(DOMAIN categorizedFiles_) = 6

----------------------------------------------------------------------------
(* Logger::Logger: the log directory and the log file, relative to cwd *)

LogsDir == Append(cwd, Name("logs", ""))
LogFilePath ==
    Append(LogsDir, [base |-> "cleaner", sfx |-> <<FormatTimestamp(clock)>>, ext |-> ".log"])

\* writes below the target directory fail when permission is denied
WriteDenied(dir) == permDenied /\ SubSeq(dir, 1, 1) = BaseDir

\* [dirs, files] after the constructor: create_directory throws into the
\* constructor's catch; the ofstream just stays closed when it cannot open
LoggerInit ==
    IF ~fs_exists(LogsDir) /\ WriteDenied(cwd)
    THEN [dirs |-> fsDirs, files |-> fsFiles]
    ELSE LET dirs == IF fs_exists(LogsDir) THEN fsDirs ELSE fsDirs \cup {LogsDir}
         IN  IF LogsDir \in dirs /\ ~WriteDenied(cwd) /\ LogFilePath \notin DOMAIN fsFiles
             THEN [dirs |-> dirs,
                   files |-> [p \in DOMAIN fsFiles \cup {LogFilePath} |->
                                 IF p = LogFilePath THEN 30 ELSE fsFiles[p]]]
             ELSE [dirs |-> dirs, files |-> fsFiles]

----------------------------------------------------------------------------
(* FileScanner *)

\* C++ integer division truncates toward zero
CDiv(a, b) == IF a >= 0 THEN a \div b ELSE -((-a) \div b)

\* the entries fs::directory_iterator(dir) returns, in no specified order
Entries(dir) == {p \in DOMAIN fsFiles \cup fsDirs : Len(p) = Len(dir) + 1 /\ Parent(p) = dir}

\* mutant: every entry that is not a directory counts as a regular file
is_regular_file_AnyFile(entry) ==
    entry \in DOMAIN fsFiles

is_regular_file(entry) ==
    entry \in DOMAIN fsFiles /\ fattr[fsFiles[entry]].kind = "regular"

\* mutant: file_size and last_write_time never throw
ExtractThrows_Never(entry) == FALSE

\* file_size or last_write_time throws for this entry
ExtractThrows(entry) == ~fattr[fsFiles[entry]].readable

\* lines 130-137: ftime - file_clock::now() + system_clock::now(), truncated to
\* whole seconds; the two clocks are read one after the other, in either
\* order, so a whole-second ftime comes out as itself or one second earlier
TimeSkews == {0, -1}

extractFileInfo(entry, skew) ==
    FileInfoOf(entry,
        [sizeBytes |-> fattr[fsFiles[entry]].sizeBytes,
         lastModified |-> fattr[fsFiles[entry]].lastModified + skew])

\* mutant: the size in bytes is compared with the threshold in MB
isLargeFile_ComparesBytes(fileInfo) ==
    fileInfo.sizeBytes >= largeFileSizeMB_

\* mutant: a file of exactly the threshold is not large
isLargeFile_StrictlyGreater(fileInfo) ==
    LET sizeMB == CDiv(fileInfo.sizeBytes, 1024 * 1024)
    IN  sizeMB > largeFileSizeMB_

isLargeFile(fileInfo) ==
    LET sizeMB == CDiv(fileInfo.sizeBytes, 1024 * 1024)
    IN  sizeMB >= largeFileSizeMB_

\* mutant: a file of exactly the threshold age is not old
isOldFile_StrictlyOlder(fileInfo) ==
    LET nowTimeT == clock
        ageSeconds == nowTimeT - fileInfo.lastModified
        ageDays == CDiv(ageSeconds, 60 * 60 * 24)
    IN  ageDays > oldFileAgeDays_

isOldFile(fileInfo) ==
    LET nowTimeT == clock
        ageSeconds == nowTimeT - fileInfo.lastModified
        ageDays == CDiv(ageSeconds, 60 * 60 * 24)
    IN  ageDays >= oldFileAgeDays_

\* the texts scanDirectory passes to logger_.error (lines 34, 39, 75)
ERR_NOT_FOUND == "Directory does not exist: "
ERR_NOT_A_DIRECTORY == "Path is not a directory: "
ERR_FILESYSTEM == "Filesystem error during scan: "

\* mutant: both early returns log the same text
ScanBegin_OneMessage ==
    /\ pc = "scan"
    /\ scanRet = "none"
    /\ files_' = <<>>
    /\ largeFiles_' = <<>>
    /\ oldFiles_' = <<>>
    /\ IF ~fs_exists(target) \/ ~fs_is_directory(target)
       THEN /\ scanError' = ERR_NOT_FOUND
            /\ scanRet' = "false"
            /\ UNCHANGED scanPending
       ELSE /\ scanRet' = "running"
            /\ scanPending' = Entries(target)
            /\ UNCHANGED scanError
    /\ UNCHANGED <<clock, fsVars, largeFileSizeMB_, oldFileAgeDays_,
                   categorizedFiles_, moverVars, mainVars>>

\* scanDirectory, lines 27-43
ScanBegin ==
    /\ pc = "scan"
    /\ scanRet = "none"
    /\ files_' = <<>>
    /\ largeFiles_' = <<>>
    /\ oldFiles_' = <<>>
    /\ IF ~fs_exists(target)
       THEN /\ scanError' = ERR_NOT_FOUND
            /\ scanRet' = "false"
            /\ UNCHANGED scanPending
       ELSE IF ~fs_is_directory(target)
       THEN /\ scanError' = ERR_NOT_A_DIRECTORY
            /\ scanRet' = "false"
            /\ UNCHANGED scanPending
       ELSE /\ scanRet' = "running"
            /\ scanPending' = Entries(target)
            /\ UNCHANGED scanError
    /\ UNCHANGED <<clock, fsVars, largeFileSizeMB_, oldFileAgeDays_,
                   categorizedFiles_, moverVars, mainVars>>

\* scanDirectory, lines 46-68: one iteration of the loop
ScanEntry ==
    /\ scanRet = "running"
    /\ \E entry \in scanPending, skew \in TimeSkews :
        /\ scanPending' = scanPending \ {entry}
        /\ IF is_regular_file(entry) /\ ~ExtractThrows(entry)
           THEN LET fileInfo == extractFileInfo(entry, skew)
                IN  /\ files_' = Append(files_, fileInfo)
                    /\ largeFiles_' = IF isLargeFile(fileInfo)
                                      THEN Append(largeFiles_, fileInfo)
                                      ELSE largeFiles_
                    /\ oldFiles_' = IF isOldFile(fileInfo)
                                    THEN Append(oldFiles_, fileInfo)
                                    ELSE oldFiles_
           ELSE /\ skew = 0
                /\ UNCHANGED <<files_, largeFiles_, oldFiles_>>
    /\ UNCHANGED <<clock, fsVars, largeFileSizeMB_, oldFileAgeDays_, scanRet,
                   scanError, categorizedFiles_, moverVars, mainVars>>

\* scanDirectory, lines 74-80: the directory iterator throws filesystem_error
ScanIteratorThrows ==
    /\ scanRet = "running"
    /\ scanPending # {}
    /\ scanRet' = "false"
    /\ scanError' = ERR_FILESYSTEM
    /\ UNCHANGED <<clock, fsVars, files_, largeFiles_, oldFiles_, largeFileSizeMB_,
                   oldFileAgeDays_, scanPending, categorizedFiles_, moverVars, mainVars>>

\* scanDirectory, lines 70-72
ScanEnd ==
    /\ scanRet = "running"
    /\ scanPending = {}
    /\ scanRet' = "true"
    /\ UNCHANGED <<clock, fsVars, files_, largeFiles_, oldFiles_, largeFileSizeMB_,
                   oldFileAgeDays_, scanPending, scanError, categorizedFiles_,
                   moverVars, mainVars>>

----------------------------------------------------------------------------
(* scanDirectory called on a scanner whose thresholds the setters have set *)

MB == 1024 * 1024
Day == 60 * 60 * 24

\* the values given to setLargeFileSizeMB and setOldFileAgeDays
Thresholds ==
    {[sizeMB |-> 1, ageDays |-> 1],
     [sizeMB |-> 2, ageDays |-> 7],
     [sizeMB |-> DEFAULT_LARGE_FILE_SIZE_MB, ageDays |-> DEFAULT_OLD_FILE_AGE_DAYS]}

\* sizes and write times around the thresholds: content 1 lies exactly on
\* both, contents 2 and 3 one byte and one second short of them, content 7
\* was written in the future; 4 cannot be read, 5 is not a regular file,
\* 6 lies below a subdirectory, 8 is a file outside the directory
ScanAttrs(th) ==
    [i \in 1..8 |->
        CASE i = 1 -> [sizeBytes |-> th.sizeMB * MB,
                       lastModified |-> T0 - th.ageDays * Day,
                       readable |-> TRUE, kind |-> "regular"]
          [] i \in {2, 3} -> [sizeBytes |-> th.sizeMB * MB - 1,
                              lastModified |-> T0 - th.ageDays * Day + 1,
                              readable |-> TRUE, kind |-> "regular"]
          [] i = 4 -> [sizeBytes |-> th.sizeMB * MB, lastModified |-> T0 - th.ageDays * Day,
                       readable |-> FALSE, kind |-> "regular"]
          [] i = 5 -> [sizeBytes |-> 0, lastModified |-> T0 - th.ageDays * Day,
                       readable |-> TRUE, kind |-> "special"]
          [] i = 6 -> [sizeBytes |-> th.sizeMB * MB, lastModified |-> T0 - th.ageDays * Day,
                       readable |-> TRUE, kind |-> "regular"]
          [] i = 7 -> [sizeBytes |-> 0, lastModified |-> T0 + Day + 5,
                       readable |-> TRUE, kind |-> "regular"]
          [] OTHER -> [sizeBytes |-> 10, lastModified |-> T0 - 1,
                       readable |-> TRUE, kind |-> "regular"]]

\* the regular files the scanned directory may hold, with their content
ScanFiles ==
    (Append(BaseDir, Name("a", ".pdf")) :> 1)
    @@ (Append(BaseDir, Name("b", ".mp4")) :> 2)
    @@ (Append(BaseDir, Name("c", ".txt")) :> 3)
    @@ (Append(BaseDir, Name("d", ".JPG")) :> 7)

\* an unreadable entry, a special file, a subdirectory and a file below it
SkippedFiles ==
    (Append(BaseDir, Name("u", ".zip")) :> 4)
    @@ (Append(BaseDir, Name("s", "")) :> 5)
    @@ (Append(Append(BaseDir, Name("Documents", "")), Name("a", ".pdf")) :> 6)

ScanInit ==
    /\ \E th \in Thresholds, present \in SUBSET DOMAIN ScanFiles, skips \in BOOLEAN :
        /\ Cardinality(present) <= MaxFiles
        /\ largeFileSizeMB_ = th.sizeMB
        /\ oldFileAgeDays_ = th.ageDays
        /\ fattr = ScanAttrs(th)
        /\ fsFiles = [p \in present |-> ScanFiles[p]]
                      @@ (IF skips THEN SkippedFiles ELSE EmptyMap)
                      @@ (Append(ExtDir, Name("notes", ".txt")) :> 8)
        /\ fsDirs = {BaseDir, ExtDir}
                     \cup (IF skips THEN {Append(BaseDir, Name("Documents", ""))} ELSE {})
    /\ target \in {BaseDir, <<Name("nowhere", "")>>, Append(ExtDir, Name("notes", ".txt"))}
    /\ permDenied = FALSE
    /\ clock = T0
    /\ files_ = <<>>
    /\ largeFiles_ = <<>>
    /\ oldFiles_ = <<>>
    /\ scanPending = {}
    /\ scanRet = "none"
    /\ scanError = "none"
    /\ categorizedFiles_ = EmptyMap
    /\ dryRun_ = DEFAULT_DRY_RUN
    /\ successCount_ = 0
    /\ failCount_ = 0
    /\ warningCount_ = 0
    /\ mpc = "off"
    /\ ci = 1
    /\ fi = 1
    /\ mret = "none"
    /\ calls = 0
    /\ preview = NoPreview
    /\ runs = <<>>
    /\ external = FALSE
    /\ pc = "scan"
    /\ exitCode = -1
    /\ cwd = ExtDir
    /\ dryRun = dryRun_
    /\ startFiles = fsFiles
    /\ startDirs = fsDirs
    /\ fs0Files = fsFiles
    /\ fs0Dirs = fsDirs
    /\ moved = <<>>

ScanNext ==
    \/ ScanBegin
    \/ ScanEntry
    \/ ScanIteratorThrows
    \/ ScanEnd
    \/ Tick

SpecScan == ScanInit /\ [][ScanNext]_vars

----------------------------------------------------------------------------
(* Properties of scanDirectory *)

Paths(fileInfos) == {fileInfos[i].path : i \in 1..Len(fileInfos)}

AtLeastThresholdMB(fileInfo) == fileInfo.sizeBytes \div MB >= largeFileSizeMB_

C14_OneNowPerScan ==
    \A i, j \in 1..Len(files_) :
        files_[i].lastModified = files_[j].lastModified =>
            (files_[i] \in Range(oldFiles_) <=> files_[j] \in Range(oldFiles_))

\* C15: scanDirectory called on a path that does not exist fails with the
\* "does not exist" error, called on a path that exists and is not a
\* directory it fails with the "not a directory" error, a different one; in
\* both cases the iteration is never started and the three results are empty.
\* Neither error is given for a directory.
C15_NotFoundNotADirectory ==
    /\ ERR_NOT_FOUND # ERR_NOT_A_DIRECTORY
    /\ scanRet # "none" =>
          /\ ~fs_exists(target) => (scanRet = "false" /\ scanError = ERR_NOT_FOUND)
          /\ (fs_exists(target) /\ ~fs_is_directory(target)) =>
                (scanRet = "false" /\ scanError = ERR_NOT_A_DIRECTORY)
          /\ fs_is_directory(target) =>
                scanError \notin {ERR_NOT_FOUND, ERR_NOT_A_DIRECTORY}
          /\ ~fs_is_directory(target) =>
                (files_ = <<>> /\ largeFiles_ = <<>> /\ oldFiles_ = <<>> /\ scanPending = {})

\* the scan of a path that is a regular file has failed
C15_Witness ==
    /\ scanRet = "false"
    /\ target \in DOMAIN fsFiles
    /\ scanError = ERR_NOT_A_DIRECTORY

\* the entry one iteration of the loop has taken
Taken == CHOOSE entry \in scanPending : entry \notin scanPending'

\* a regular file whose size or write time cannot be read
Unreadable(entry) ==
    /\ entry \in DOMAIN fsFiles
    /\ fattr[fsFiles[entry]].kind = "regular"
    /\ ~fattr[fsFiles[entry]].readable

\* a file that is not a regular file (a socket, a device)
Special(entry) ==
    entry \in DOMAIN fsFiles /\ fattr[fsFiles[entry]].kind # "regular"

\* the regular files lying directly in the directory whose metadata can be read
ReadableFiles ==
    {p \in DOMAIN fsFiles :
        /\ Parent(p) = target
        /\ fattr[fsFiles[p]].kind = "regular"
        /\ fattr[fsFiles[p]].readable}

\* C16: the iteration that meets an entry whose metadata cannot be read
\* records nothing and the scan goes on; a scan that returns true has
\* recorded every regular file of the directory whose metadata can be read,
\* once, and no other entry.
C16_EntryFailureTolerated ==
    [][/\ (scanRet = "running" /\ scanPending' # scanPending /\ Unreadable(Taken)) =>
            /\ scanRet' = "running"
            /\ UNCHANGED <<files_, largeFiles_, oldFiles_>>
       /\ scanRet' = "true" =>
            /\ Paths(files_') = ReadableFiles
            /\ Len(files_') = Cardinality(ReadableFiles)
            /\ Paths(largeFiles_') \cup Paths(oldFiles_') \subseteq ReadableFiles]_vars

\* a scan has returned true on a directory with an unreadable entry and
\* three readable files
C16_Witness ==
    /\ scanRet = "true"
    /\ \E entry \in Entries(target) : Unreadable(entry)
    /\ Len(files_) = 3

\* C17: the iteration that meets a subdirectory or a special file records
\* nothing and the scan goes on; every record of files_, largeFiles_ and
\* oldFiles_ is a regular file lying directly in the scanned directory.
C17_OnlyRegularChildren ==
    [][/\ (scanRet = "running" /\ scanPending' # scanPending
            /\ (Taken \in fsDirs \/ Special(Taken))) =>
            /\ scanRet' = "running"
            /\ UNCHANGED <<files_, largeFiles_, oldFiles_>>
       /\ \A p \in Paths(files_') \cup Paths(largeFiles_') \cup Paths(oldFiles_') :
            /\ Parent(p) = target
            /\ p \in DOMAIN fsFiles
            /\ fattr[fsFiles[p]].kind = "regular"
            /\ p \notin fsDirs]_vars

\* a scan has returned true on a directory holding a special file and a
\* subdirectory with a regular file in it
C17_Witness ==
    /\ scanRet = "true"
    /\ \E entry \in Entries(target) : Special(entry)
    /\ \E d \in Entries(target) : d \in fsDirs /\ \E p \in DOMAIN fsFiles : Parent(p) = d
    /\ Len(files_) >= 2

\* C28: whenever scanDirectory has returned false, getFiles, getLargeFiles and
\* getOldFiles are all empty, at whatever point of the enumeration the
\* failure occurred.
C28_FailedScanIsEmpty ==
    scanRet = "false" =>
        files_ = <<>> /\ largeFiles_ = <<>> /\ oldFiles_ = <<>>

----------------------------------------------------------------------------
(* main *)

\* lines 93-131: the existence test, the Logger, the scanner and its setters
MainStart ==
    /\ pc = "start"
    /\ IF ~fs_exists(target)
       THEN /\ exitCode' = 1
            /\ pc' = "exit"
            /\ UNCHANGED <<fsFiles, fsDirs, largeFileSizeMB_, oldFileAgeDays_>>
       ELSE /\ fsDirs' = LoggerInit.dirs
            /\ fsFiles' = LoggerInit.files
            /\ largeFileSizeMB_' = DEFAULT_LARGE_FILE_SIZE_MB
            /\ oldFileAgeDays_' = DEFAULT_OLD_FILE_AGE_DAYS
            /\ pc' = "scan"
            /\ UNCHANGED exitCode
    /\ UNCHANGED <<clock, permDenied, fattr, files_, largeFiles_, oldFiles_,
                   scanPending, scanRet, scanError, categorizedFiles_, moverVars,
                   cwd, target, dryRun, startFiles, startDirs, runs, external>>

\* lines 133-145: scanDirectory has returned
MainAfterScan ==
    /\ pc = "scan"
    /\ scanRet \in {"true", "false"}
    /\ IF scanRet = "false"
       THEN exitCode' = 1 /\ pc' = "exit"
       ELSE IF files_ = <<>>
       THEN exitCode' = 0 /\ pc' = "exit"
       ELSE pc' = "classify" /\ UNCHANGED exitCode
    /\ UNCHANGED <<clock, fsVars, scanVars, categorizedFiles_, moverVars,
                   cwd, target, dryRun, startFiles, startDirs, runs, external>>

\* line 174: FileMover mover(logger, dryRun), then the call of organizeFiles
MainOrganize ==
    /\ pc = "classified"
    /\ mpc = "off"
    /\ dryRun_' = dryRun
    /\ successCount_' = 0
    /\ failCount_' = 0
    /\ warningCount_' = 0
    /\ mpc' = "entry"
    /\ pc' = "organize"
    /\ UNCHANGED <<clock, fsVars, scanVars, categorizedFiles_, ci, fi, mret, calls, preview,
                   fs0Files, fs0Dirs, moved, exitCode, cwd, target, dryRun,
                   startFiles, startDirs, runs, external>>

\* mutant: a run with failed moves exits with 1
MainAfterOrganize_FailsOnFailedMoves ==
    /\ pc = "organize"
    /\ mpc = "returned"
    /\ exitCode' = IF mret = "false" \/ failCount_ > 0 THEN 1 ELSE 0
    /\ pc' = "exit"
    /\ UNCHANGED <<clock, fsVars, scanVars, categorizedFiles_, moverVars,
                   cwd, target, dryRun, startFiles, startDirs, runs, external>>

\* lines 176-196: organizeFiles has returned
MainAfterOrganize ==
    /\ pc = "organize"
    /\ mpc = "returned"
    /\ exitCode' = IF mret = "false" THEN 1 ELSE 0
    /\ pc' = "exit"
    /\ UNCHANGED <<clock, fsVars, scanVars, categorizedFiles_, moverVars,
                   cwd, target, dryRun, startFiles, startDirs, runs, external>>

\* another process deletes one scanned file between the scan and the moves
ExternalDelete ==
    /\ pc \in {"classify", "classified"}
    /\ \A i \in 1..Len(files_) : files_[i].path \in DOMAIN fsFiles
    /\ \E i \in 1..Len(files_) :
         fsFiles' = [p \in DOMAIN fsFiles \ {files_[i].path} |-> fsFiles[p]]
    /\ external' = TRUE
    /\ UNCHANGED <<clock, fsDirs, permDenied, fattr, scanVars, categorizedFiles_,
                   moverVars, pc, exitCode, cwd, target, dryRun, startFiles,
                   startDirs, runs>>

\* another process puts a new file into a scanned directory once
\* scanDirectory has returned, before or while organizeFiles runs
ExternalAdd ==
    /\ pc \in {"classify", "classified", "organize"}
    /\ fs_is_directory(target)
    /\ LET new == Append(target, Name("n", ".pdf"))
       IN  /\ ~fs_exists(new)
           /\ fsFiles' = [p \in DOMAIN fsFiles \cup {new} |->
                             IF p = new THEN 7 ELSE fsFiles[p]]
    /\ external' = TRUE
    /\ UNCHANGED <<clock, fsDirs, permDenied, fattr, scanVars, categorizedFiles_,
                   moverVars, pc, exitCode, cwd, target, dryRun, startFiles,
                   startDirs, runs>>

\* the program has exited and is started again, with the same arguments in
\* the same working directory: a new process, so every object is constructed
\* anew; runs keeps what the run that has ended did and what it left on disk
MainRerun ==
    /\ pc = "exit"
    /\ Len(runs) + 1 < MaxRuns
    /\ runs' = Append(runs, [real |-> ~dryRun, organized |-> mret,
                             success |-> successCount_, fail |-> failCount_,
                             external |-> external,
                             files |-> fsFiles, dirs |-> fsDirs])
    /\ pc' = "start"
    /\ exitCode' = -1
    /\ files_' = <<>>
    /\ largeFiles_' = <<>>
    /\ oldFiles_' = <<>>
    /\ largeFileSizeMB_' = DEFAULT_LARGE_FILE_SIZE_MB
    /\ oldFileAgeDays_' = DEFAULT_OLD_FILE_AGE_DAYS
    /\ scanPending' = {}
    /\ scanRet' = "none"
    /\ scanError' = "none"
    /\ categorizedFiles_' = EmptyMap
    /\ dryRun_' = DEFAULT_DRY_RUN
    /\ successCount_' = 0
    /\ failCount_' = 0
    /\ warningCount_' = 0
    /\ mpc' = "off"
    /\ ci' = 1
    /\ fi' = 1
    /\ mret' = "none"
    /\ calls' = 0
    /\ moved' = <<>>
    /\ startFiles' = fsFiles
    /\ startDirs' = fsDirs
    /\ fs0Files' = fsFiles
    /\ fs0Dirs' = fsDirs
    /\ external' = FALSE
    /\ UNCHANGED <<clock, fsVars, preview, cwd, target, dryRun>>

----------------------------------------------------------------------------
(* The directories the program is run on *)

FileAttrs ==
    [i \in {1, 2, 3, 4, 5, 6, 7, 11, 30} |->
        CASE i = 1 -> [sizeBytes |-> 50 * MB, lastModified |-> T0,
                       readable |-> TRUE, kind |-> "regular"]
          [] i = 2 -> [sizeBytes |-> 1200 * MB, lastModified |-> T0,
                       readable |-> TRUE, kind |-> "regular"]
          [] i = 3 -> [sizeBytes |-> 1 * MB, lastModified |-> T0 - 200 * Day,
                       readable |-> TRUE, kind |-> "regular"]
          [] i = 4 -> [sizeBytes |-> 7, lastModified |-> T0,
                       readable |-> FALSE, kind |-> "regular"]
          [] i = 5 -> [sizeBytes |-> 0, lastModified |-> T0,
                       readable |-> TRUE, kind |-> "special"]
          [] OTHER -> [sizeBytes |-> 10, lastModified |-> T0 - 1,
                       readable |-> TRUE, kind |-> "regular"]]

APdf == Append(BaseDir, Name("a", ".pdf"))
BMp4 == Append(BaseDir, Name("b", ".mp4"))
CTxt == Append(BaseDir, Name("c", ".txt"))
UZip == Append(BaseDir, Name("u", ".zip"))
EZip == Append(BaseDir, Name("e", ".zip"))
SSock == Append(BaseDir, Name("s", ""))
NotesFile == Append(ExtDir, Name("notes", ".txt"))
MissingDir == <<Name("nowhere", "")>>

\* a.pdf (50MB, today), b.mp4 (1200MB, today), c.txt (1MB, 200 days old)
LayoutEndToEnd ==
    [files |-> (APdf :> 1) @@ (BMp4 :> 2) @@ (CTxt :> 3), dirs |-> {}]

\* Documents/ exists and already holds an a.pdf
LayoutCollision ==
    [files |-> (APdf :> 1) @@ (CTxt :> 3) @@ (Append(DocumentsDir, Name("a", ".pdf")) :> 11),
     dirs |-> {DocumentsDir}]

\* an entry whose metadata cannot be read, a special file, a subdirectory
LayoutSkips ==
    [files |-> (APdf :> 1) @@ (BMp4 :> 2) @@ (UZip :> 4) @@ (SSock :> 5),
     dirs |-> {VideosDir}]

\* no regular file at all
LayoutEmpty == [files |-> EmptyMap, dirs |-> {DocumentsDir}]

\* a regular file named Documents lies where the category directory goes
LayoutCategoryIsFile ==
    [files |-> (APdf :> 1) @@ (DocumentsDir :> 6), dirs |-> {}]

\* a document and an archive
LayoutArchive ==
    [files |-> (APdf :> 1) @@ (EZip :> 6), dirs |-> {}]

Layouts ==
    {LayoutEndToEnd, LayoutCollision, LayoutSkips, LayoutEmpty, LayoutCategoryIsFile,
     LayoutArchive}

Init ==
    /\ \E layout \in Layouts :
        /\ fsFiles = layout.files @@ (NotesFile :> 6)
        /\ fsDirs = layout.dirs \cup {BaseDir, ExtDir}
    /\ permDenied \in BOOLEAN
    /\ dryRun \in BOOLEAN
    /\ cwd \in {BaseDir, ExtDir}
    /\ target \in {BaseDir, MissingDir, NotesFile}
    /\ fattr = FileAttrs
    /\ clock = T0
    /\ ScannerIdle
    /\ categorizedFiles_ = EmptyMap
    /\ dryRun_ = DEFAULT_DRY_RUN
    /\ successCount_ = 0
    /\ failCount_ = 0
    /\ warningCount_ = 0
    /\ mpc = "off"
    /\ ci = 1
    /\ fi = 1
    /\ mret = "none"
    /\ calls = 0
    /\ preview = NoPreview
    /\ runs = <<>>
    /\ external = FALSE
    /\ pc = "start"
    /\ exitCode = -1
    /\ startFiles = fsFiles
    /\ startDirs = fsDirs
    /\ fs0Files = fsFiles
    /\ fs0Dirs = fsDirs
    /\ moved = <<>>

Next ==
    \/ MainStart
    \/ ScanBegin
    \/ ScanEntry
    \/ ScanIteratorThrows
    \/ ScanEnd
    \/ MainAfterScan
    \/ Classify
    \/ ExternalDelete
    \/ ExternalAdd
    \/ MainOrganize
    \/ OrganizeEnter
    \/ CreateDirStep
    \/ CreateDirsDone
    \/ MoveStep
    \/ NextCategory
    \/ OrganizeReturn
    \/ MainAfterOrganize
    \/ Tick

Spec == Init /\ [][Next]_vars

----------------------------------------------------------------------------
(* The program run on a directory, and run again when it has exited; no
   other process touches the directory *)

RerunInit ==
    /\ Init
    /\ target = BaseDir
    /\ ~permDenied

RerunNext ==
    \/ MainStart
    \/ ScanBegin
    \/ ScanEntry
    \/ ScanIteratorThrows
    \/ ScanEnd
    \/ MainAfterScan
    \/ Classify
    \/ MainOrganize
    \/ OrganizeEnter
    \/ CreateDirStep
    \/ CreateDirsDone
    \/ MoveStep
    \/ NextCategory
    \/ OrganizeReturn
    \/ MainAfterOrganize
    \/ MainRerun
    \/ Tick

SpecRerun == RerunInit /\ [][RerunNext]_vars

----------------------------------------------------------------------------
(* Properties of the whole program *)

Names(fileInfos) == [i \in 1..Len(fileInfos) |-> fileInfos[i].name]

IsDocument(fileInfo) == fileInfo.extension \in {".pdf", ".txt"}

\* the run started on the directory holding a.pdf, b.mp4 and c.txt only, with
\* the thresholds 100 MB and 90 days
EndToEndStart ==
    /\ target = BaseDir
    /\ FilesIn(startFiles, BaseDir) = {APdf, BMp4, CTxt}
    /\ startDirs = {BaseDir, ExtDir}
    /\ largeFileSizeMB_ = 100
    /\ oldFileAgeDays_ = 90

\* organizeFiles ran in real mode on a writable tree with every scanned file
\* still in place
EndToEndMoved ==
    /\ pc = "exit"
    /\ mret = "true"
    /\ ~dryRun
    /\ ~permDenied
    /\ MissingAtEntry = {}

EndToEndScan ==
    scanRet = "true" =>
        /\ Len(files_) = 3
        /\ Names(largeFiles_) = <<Name("b", ".mp4")>>
        /\ Names(oldFiles_) = <<Name("c", ".txt")>>

EndToEndCounts ==
    EndToEndMoved =>
        /\ successCount_ = 3
        /\ failCount_ = 0
        /\ warningCount_ = 0
        /\ exitCode = 0
        /\ {APdf, BMp4, CTxt} \cap DOMAIN fsFiles = {}
        /\ Append(DocumentsDir, Name("a", ".pdf")) \in DOMAIN fsFiles
        /\ fsFiles[Append(DocumentsDir, Name("a", ".pdf"))] = startFiles[APdf]
        /\ Append(VideosDir, Name("b", ".mp4")) \in DOMAIN fsFiles
        /\ fsFiles[Append(VideosDir, Name("b", ".mp4"))] = startFiles[BMp4]

OthersDir == CategoryPath(BaseDir, CATEGORY_OTHERS)

\* C9 as amended: the scan yields largeFiles=[b.mp4] and oldFiles=[c.txt];
\* classifyFiles yields Documents = a.pdf and c.txt in scan order,
\* Videos=[b.mp4] and an empty Others; the real-mode run reports 3 successes,
\* 0 failures, 0 warnings, and Documents/a.pdf, Videos/b.mp4 and
\* Documents/c.txt exist while the originals do not.
C9_EndToEnd ==
    EndToEndStart =>
        /\ EndToEndScan
        /\ (scanRet = "true" /\ pc \in {"classified", "organize", "exit"}) =>
              /\ categorizedFiles_[CATEGORY_DOCUMENTS] = SelectSeq(files_, IsDocument)
              /\ Range(Names(categorizedFiles_[CATEGORY_DOCUMENTS]))
                    = {Name("a", ".pdf"), Name("c", ".txt")}
              /\ Names(categorizedFiles_[CATEGORY_VIDEOS]) = <<Name("b", ".mp4")>>
              /\ categorizedFiles_[CATEGORY_OTHERS] = <<>>
        /\ EndToEndCounts
        /\ EndToEndMoved =>
              /\ Append(DocumentsDir, Name("c", ".txt")) \in DOMAIN fsFiles
              /\ fsFiles[Append(DocumentsDir, Name("c", ".txt"))] = startFiles[CTxt]

C9_Witness ==
    /\ EndToEndStart
    /\ EndToEndMoved
    /\ successCount_ = 3

\* C9 as stated: classifyFiles yields Documents=[a.pdf], Videos=[b.mp4],
\* Others=[c.txt], and after the real-mode run Others/c.txt exists.
C9_EndToEndAsStated ==
    EndToEndStart =>
        /\ EndToEndScan
        /\ (scanRet = "true" /\ pc \in {"classified", "organize", "exit"}) =>
              /\ Names(categorizedFiles_[CATEGORY_DOCUMENTS]) = <<Name("a", ".pdf")>>
              /\ Names(categorizedFiles_[CATEGORY_VIDEOS]) = <<Name("b", ".mp4")>>
              /\ Names(categorizedFiles_[CATEGORY_OTHERS]) = <<Name("c", ".txt")>>
        /\ EndToEndCounts
        /\ EndToEndMoved =>
              Append(OthersDir, Name("c", ".txt")) \in DOMAIN fsFiles

\* the place of a category in getAllCategories
CanonicalIndex(category) ==
    CHOOSE i \in 1..Len(getAllCategories) : getAllCategories[i] = category

\* the category whose directory a destination path lies in
CategoryOf(path) == Last(Parent(path)).base

\* C19: organizeFiles handles the categories in the order Documents, Images,
\* Videos, Archives, Code, Others: a category directory is created only when
\* the path of every non-empty category before it in that order exists, and
\* the renames are made category by category in that order.
C19_CanonicalOrder ==
    /\ mpc = "mkdirs" =>
          \A c \in NonEmptyCategories :
              CategoryPath(target, c) \in fsDirs \ fs0Dirs =>
                  \A b \in NonEmptyCategories :
                      CanonicalIndex(b) < CanonicalIndex(c) =>
                          fs_exists(CategoryPath(target, b))
    /\ \A i, j \in 1..Len(moved) :
          i < j => CanonicalIndex(CategoryOf(moved[i].to))
                      <= CanonicalIndex(CategoryOf(moved[j].to))

\* a path below main's target directory
UnderTarget(p) == Len(p) > Len(target) /\ SubSeq(p, 1, Len(target)) = target

\* C20: no step of a --dry-run run creates, moves, removes or rewrites a file
\* or a directory below the target directory, whether the target is the
\* current working directory or another one (what another process deletes
\* is not the run's doing).
C20_DryRunLeavesTarget ==
    [][(dryRun /\ ~ExternalDelete /\ ~ExternalAdd) =>
          /\ {p \in DOMAIN fsFiles' : UnderTarget(p)} = {p \in DOMAIN fsFiles : UnderTarget(p)}
          /\ \A p \in DOMAIN fsFiles : UnderTarget(p) => fsFiles'[p] = fsFiles[p]
          /\ {p \in fsDirs' : UnderTarget(p)} = {p \in fsDirs : UnderTarget(p)}]_vars

\* C21: every path organizeFiles calls rename on is the path of a record of
\* the scan, and no step of the run moves, removes or rewrites a regular file
\* of the target directory that the finished scan has not recorded, such as
\* a file another process added after the scan.
C21_AddedFilesStay ==
    [][/\ \A i \in 1..Len(moved') : moved'[i].from \in Paths(files_')
       /\ scanRet = "true" =>
            \A p \in Unscanned : p \in DOMAIN fsFiles' /\ fsFiles'[p] = fsFiles[p]]_vars

\* a real-mode run has moved two files or more and a file added to the
\* target directory after the scan lies where it was put
C21_Witness ==
    /\ pc = "exit"
    /\ ~dryRun
    /\ mret = "true"
    /\ successCount_ >= 2
    /\ \E p \in DOMAIN fsFiles \ DOMAIN startFiles :
          Parent(p) = target /\ fsFiles[p] = 7

\* the files of a sequence that are classified into category c, in the order
\* of the sequence
InCategory(files, c) ==
    LET Is(f) == classifyFile(f) = c
    IN  SelectSeq(files, Is)

\* C26: within each category the files keep the order of the scan result, and
\* organizeFiles attempts the moves of a real run category by category in
\* that order.
C26_InputOrderKept ==
    pc \in {"classified", "organize", "exit"} /\ DOMAIN categorizedFiles_ # {} =>
        /\ \A c \in DOMAIN categorizedFiles_ :
               categorizedFiles_[c] = InCategory(files_, c)
        /\ Len(moved) <= TotalFiles
        /\ \A i \in 1..Len(moved) : moved[i].from = ClassifiedFiles[i].path

C26_Witness ==
    /\ pc = "exit" /\ ~dryRun /\ mret = "true"
    /\ \E c \in DOMAIN categorizedFiles_ :
          /\ Len(categorizedFiles_[c]) >= 2
          /\ categorizedFiles_[c][1].name.ext # categorizedFiles_[c][2].name.ext
    /\ Len(moved) = TotalFiles
    /\ TotalFiles >= 3

\* the run before this one ran in real mode, moved at least one file, every
\* move succeeded, and no other process has touched the directory since the
\* start of that run
AfterCleanRun ==
    /\ runs # <<>>
    /\ runs[Len(runs)].real
    /\ runs[Len(runs)].organized = "true"
    /\ runs[Len(runs)].success >= 1
    /\ runs[Len(runs)].fail = 0
    /\ ~runs[Len(runs)].external
    /\ ~external

\* the run finds no file, never reaches organizeFiles, and leaves every
\* directory and every file the run before left, as it left it
RerunMovesNothing ==
    /\ files_ = <<>>
    /\ mpc = "off"
    /\ moved = <<>>
    /\ fsDirs = runs[Len(runs)].dirs
    /\ \A p \in DOMAIN runs[Len(runs)].files :
          p \in DOMAIN fsFiles /\ fsFiles[p] = runs[Len(runs)].files[p]

\* the regular files below the target directory, with their content
TargetTree(files) == [p \in {q \in DOMAIN files : UnderTarget(q)} |-> files[p]]

\* the log files below logs/ of the working directory
LogFiles == {p \in DOMAIN fsFiles : Parent(p) = LogsDir /\ Last(p).base = "cleaner"}

C10_ExitStatus ==
    pc = "exit" =>
        /\ scanRet = "false" =>
              (exitCode = 1 /\ mpc = "off" /\ moved = <<>>)
        /\ mret = "false" =>
              (exitCode = 1 /\ moved = <<>> /\ successCount_ + failCount_ = 0)
        /\ mret = "true" =>
              /\ exitCode = 0
              /\ successCount_ + failCount_ = TotalFiles
              /\ ~dryRun => Len(moved) = TotalFiles
              /\ failCount_ = Cardinality(FailedRenames)

\* a finished run in which a failed move was followed by a successful one
C10_Witness ==
    /\ pc = "exit"
    /\ exitCode = 0
    /\ \E i, j \in 1..Len(moved) : i < j /\ ~moved[i].ok /\ moved[j].ok

====
